---------------------------- MODULE Spec2Model ----------------------------
(***************************************************************************)
(* A model of the song-quiz game engine of src/main.py: the catalog        *)
(* (songs_data), the session (game_state) and the handlers that read and   *)
(* write them.                                                             *)
(*                                                                         *)
(* Python lists are sequences; Python indices are 0-based, so the Python   *)
(* expression xs[i] is xs[i + 1] here.  A Python str is a sequence of      *)
(* one-character strings; a username is an opaque string.                  *)
(*                                                                         *)
(* Spec     : every handler is one step (handler granularity).             *)
(* LoopSpec : the two guess handlers are split statement by statement and  *)
(*            scheduled by the asyncio event loop, which switches tasks    *)
(*            only where a coroutine awaits.                               *)
(***************************************************************************)
EXTENDS Integers, Sequences, FiniteSets, TLC

VARIABLES
    songs_data,           \* main.py:315   the loaded catalog
    current_song_index,   \* GameState.current_song_index
    players,              \* GameState.players
    is_playing,           \* GameState.is_playing
    show_hint,            \* GameState.show_hint
    current_winners,      \* GameState.current_winners
    song_order,           \* GameState.song_order
    played_count,         \* GameState.played_count
    showing_answer,       \* GameState.showing_answer
    last,                 \* history: why the last handler turned a guess away by a
                          \* rule of the session, or "none"
    visited,              \* history: the songs made current since the last start
    task,                 \* LoopSpec: the guess handlers in flight
    running,              \* LoopSpec: the task that holds the event loop, or 0
    arg,                  \* function specifications: the input drawn, as <<input>>
    out,                  \* function specifications: <<result>> once computed
    sio_connected,        \* sio.connected
    current_access_token, \* main.current_access_token, "None" or a token
    current_session_key,  \* main.current_session_key, "None" or a key
    lifespan_pc,          \* the position of the lifespan context manager
    conn_tasks,           \* the connect_to_chzzk_socket tasks, by slot
    lost_handlers         \* the disconnect handlers asleep after a lost
                          \* connection

game == <<current_song_index, players, is_playing, show_hint, current_winners,
          song_order, played_count, showing_answer>>

hist == <<last, visited>>

loop == <<task, running>>

pure == <<arg, out>>

socket == <<sio_connected, current_access_token, current_session_key,
            lifespan_pc, conn_tasks, lost_handlers>>

vars == <<songs_data, game, hist, loop, pure, socket>>

-----------------------------------------------------------------------------
(* Bounds of the model *)

\* the most points that may be on the scoreboard (the sum of all scores)
MaxPoints == 4

\* the largest value of played_count
MaxPlayed == 2

\* the number of guess handlers that may be in flight in LoopSpec
NumTasks == 2

\* the largest catalog size for which the shuffle alone is checked
MaxShuffle == 4

\* the number of connect_to_chzzk_socket tasks that may exist at a time
MaxConnTasks == 3

-----------------------------------------------------------------------------
(* Inputs *)

Users == {"u1", "u2", "u3", "u4"}

\* texts of guesses: empty, blank, and two that are right for some songs and
\* wrong for others
Guesses == { <<>>, <<" ">>, <<"B", " ">>, <<"a">> }

-----------------------------------------------------------------------------
(* Strings *)

\* str.lower on one character
Lower(c) == IF c = "A" THEN "a" ELSE IF c = "B" THEN "b" ELSE c

\* the characters str.strip removes
IsWhitespace(c) == c \in {" ", "\t", "\n"}

RECURSIVE LStrip(_)
LStrip(s) ==
    IF s # <<>> /\ IsWhitespace(Head(s)) THEN LStrip(Tail(s)) ELSE s

RECURSIVE RStrip(_)
RStrip(s) ==
    IF s # <<>> /\ IsWhitespace(s[Len(s)])
    THEN RStrip(SubSeq(s, 1, Len(s) - 1))
    ELSE s

\* str.strip()
Strip(s) == RStrip(LStrip(s))

\* str.lower()
LowerStr(s) == [i \in 1..Len(s) |-> Lower(s[i])]

\* str.replace(" ", "")
RemoveSpaces(s) == SelectSeq(s, LAMBDA c : c # " ")

\* title.strip().lower().replace(" ", "")
NormalizeTitle(t) == RemoveSpaces(LowerStr(Strip(t)))

\* any(answer_normalized == normalized title for title in current_song.title)
IsCorrect(answer_normalized, song) ==
    \E i \in 1..Len(song.title) :
        answer_normalized = NormalizeTitle(song.title[i])

\* x in xs
InList(x, xs) == \E i \in 1..Len(xs) : xs[i] = x

-----------------------------------------------------------------------------
(* Catalog loader *)

\* unescape_string(s), from position i (0-based) with result so far
RECURSIVE UnescapeFrom(_, _, _)
UnescapeFrom(s, i, result) ==
    IF ~(i < Len(s)) THEN result
    ELSE IF s[i + 1] = "\\" /\ i + 1 < Len(s)
         THEN UnescapeFrom(s, i + 2, Append(result, s[i + 2]))
         ELSE UnescapeFrom(s, i + 1, Append(result, s[i + 1]))

UnescapeString(s) == UnescapeFrom(s, 0, <<>>)

\* item = "".join(current_item).strip(); if item: items.append(item)
AppendItem(items, current_item) ==
    IF Strip(current_item) # <<>>
    THEN Append(items, Strip(current_item))
    ELSE items

\* a split at every comma, each piece then unescaped, trimmed and kept if
\* not empty: [unescape_string(x).strip() for x in content.split(",")]
RECURSIVE SplitFrom(_, _, _, _)
SplitFrom(content, i, current_item, items) ==
    IF ~(i < Len(content))
    THEN AppendItem(items, UnescapeString(current_item))
    ELSE IF content[i + 1] = ","
         THEN SplitFrom(content, i + 1, <<>>,
                        AppendItem(items, UnescapeString(current_item)))
         ELSE SplitFrom(content, i + 1,
                        Append(current_item, content[i + 1]), items)

ParseSplitThenUnescape(content) == SplitFrom(content, 0, <<>>, <<>>)

\* the while loop of parse_escaped_list, from position i (0-based)
RECURSIVE ParseFrom(_, _, _, _)
ParseFrom(content, i, current_item, items) ==
    IF ~(i < Len(content)) THEN AppendItem(items, current_item)
    ELSE IF content[i + 1] = "\\" /\ i + 1 < Len(content)
         THEN ParseFrom(content, i + 2,
                        Append(current_item, content[i + 2]), items)
    ELSE IF content[i + 1] = ","
         THEN ParseFrom(content, i + 1, <<>>, AppendItem(items, current_item))
    ELSE ParseFrom(content, i + 1, Append(current_item, content[i + 1]), items)

\* parse_escaped_list(content)
ParseEscapedList(content) == ParseFrom(content, 0, <<>>, <<>>)

\* title_str.startswith("[") and title_str.endswith("]")
IsBracketed(title_str) ==
    /\ title_str # <<>>
    /\ Head(title_str) = "["
    /\ title_str[Len(title_str)] = "]"

\* load_songs: the title cell of a row turned into the list of accepted
\* answers
TitleList(title_str) ==
    IF IsBracketed(title_str)
    THEN ParseEscapedList(SubSeq(title_str, 2, Len(title_str) - 1))
    ELSE IF Strip(title_str) # <<>>
         THEN <<UnescapeString(Strip(title_str))>>
         ELSE <<>>

\* class Song, reduced to the field the engine reads: the accepted answers
Song(titles) == [title |-> titles]

\* A row of a catalog file with title cell title_str, and the Song that
\* load_songs builds of it.
Row(title_str) == [raises |-> FALSE, song |-> Song(TitleList(title_str))]

\* A row whose title cell is None (a short row): title_str.startswith raises
\* inside load_songs.
BadRow == [raises |-> TRUE, song |-> Song(<<>>)]

\* The catalog files the loader may be pointed at, as sequences of rows.
Files ==
    { <<>>,
      << Row(<<"[", "a", " ", "b", ",", " ", "B", "]">>), Row(<<"a">>) >>,
      << Row(<<"B">>), BadRow, Row(<<"a">>) >> }

\* load_songs: songs_data is emptied, then one Song is appended per row; a
\* row that raises ends the loop with the rows before it already appended.
RECURSIVE LoadRows(_, _)
LoadRows(rows, acc) ==
    IF rows = <<>> THEN acc
    ELSE IF Head(rows).raises THEN acc
    ELSE LoadRows(Tail(rows), Append(acc, Head(rows).song))

LoadSongsResult(rows) == LoadRows(rows, <<>>)

\* the value load_songs returns: len(songs_data), or 0 from the except
\* branch when a row raised
LoadSongsReturn(rows) ==
    IF \E i \in 1..Len(rows) : rows[i].raises
    THEN 0
    ELSE Len(LoadSongsResult(rows))

-----------------------------------------------------------------------------
(* Shuffle sequencer *)

\* list(range(n))
Range(n) == [i \in 1..n |-> i - 1]

\* x[i], x[j] = x[j], x[i]   (0-based i, j)
Swap(x, i, j) ==
    [k \in 1..Len(x) |->
        IF k = i + 1 THEN x[j + 1] ELSE IF k = j + 1 THEN x[i + 1] ELSE x[k]]

\* random.shuffle(x): for i from len(x) - 1 down to 1, swap x[i] with x[j]
\* for a random j in 0..i.  The set of lists it can leave in x.
RECURSIVE ShuffleFrom(_, _)
ShuffleFrom(x, i) ==
    IF i < 1 THEN {x}
    ELSE UNION { ShuffleFrom(Swap(x, i, j), i - 1) : j \in 0..i }

Shuffle(x) == ShuffleFrom(x, Len(x) - 1)

\* n indices drawn independently, as random.choices(range(n), k=n) gives
NewOrderWithRepeats(n) ==
    IF n = 0 THEN {<<>>}
    ELSE { [i \in 1..n |-> f[i]] : f \in [1..n -> 0..(n - 1)] }

\* song_indices = list(range(len(songs_data))); random.shuffle(song_indices)
NewOrder(n) == Shuffle(Range(n))

-----------------------------------------------------------------------------
(* Scoreboard *)

\* points that fall with the rank: 3 for the first winner, 2, then 1
PointsByRank(rank) ==
    IF rank = 0 THEN 3 ELSE IF rank = 1 THEN 2 ELSE IF rank = 2 THEN 1 ELSE 0

\* points by rank: the if / elif chain of both guess handlers
Points(rank) ==
    IF rank = 0 THEN 1 ELSE IF rank = 1 THEN 1 ELSE IF rank = 2 THEN 1 ELSE 0

HasPlayer(ps, username) == \E i \in 1..Len(ps) : ps[i].username = username

\* the first record of username in ps
PlayerIndex(ps, username) ==
    CHOOSE i \in 1..Len(ps) :
        /\ ps[i].username = username
        /\ \A j \in 1..(i - 1) : ps[j].username # username

\* the player-update loop: add points to the first record of username, or
\* append a new Player
Award(ps, username, points) ==
    IF HasPlayer(ps, username)
    THEN [ps EXCEPT ![PlayerIndex(ps, username)].score = @ + points]
    ELSE Append(ps, [username |-> username, score |-> points])

ScoreOf(ps, username) ==
    IF HasPlayer(ps, username) THEN ps[PlayerIndex(ps, username)].score ELSE 0

\* list.insert keeping scores descending: p goes after every record whose
\* score is not smaller
RECURSIVE InsertDescending(_, _)
InsertDescending(xs, p) ==
    IF xs = <<>> THEN <<p>>
    ELSE IF Head(xs).score >= p.score
         THEN <<Head(xs)>> \o InsertDescending(Tail(xs), p)
         ELSE <<p>> \o xs

\* sorted(ps, key=lambda p: p.score, reverse=True): a stable sort, records of
\* equal score keep the order they have in ps
RECURSIVE SortedInto(_, _)
SortedInto(ps, acc) ==
    IF ps = <<>> THEN acc
    ELSE SortedInto(Tail(ps), InsertDescending(acc, Head(ps)))

SortedByScore(ps) == SortedInto(ps, <<>>)

\* xs[::-1]
Reversed(xs) == [i \in 1..Len(xs) |-> xs[Len(xs) + 1 - i]]

\* sorted(ps, key=lambda p: p.score)[::-1]: descending, but records of equal
\* score come out in the reverse of their order in ps
SortedThenReversed(ps) ==
    LET Negated(xs) == [i \in 1..Len(xs) |-> [xs[i] EXCEPT !.score = 0 - @]]
    IN  Negated(Reversed(SortedByScore(Negated(ps))))

\* the sum of the scores of ps
RECURSIVE TotalScore(_)
TotalScore(ps) ==
    IF ps = <<>> THEN 0 ELSE Head(ps).score + TotalScore(Tail(ps))

-----------------------------------------------------------------------------
(* Guess handling: the decision of each handler, read from the current state *)

\* sub in s, for two str
Contains(sub, s) ==
    \E k \in 0..(Len(s) - Len(sub)) : SubSeq(s, k + 1, k + Len(sub)) = sub

\* handle_game_answer from "answer = answer.strip()" to is_correct: an empty
\* text returns before it is judged, any other is lower-cased, loses its
\* spaces and is compared with each normalized title
ChatIsCorrect(answer, song) ==
    /\ Strip(answer) # <<>>
    /\ IsCorrect(RemoveSpaces(LowerStr(Strip(answer))), song)

\* is_correct of check_answer with "in" in place of "=="
ApiIsCorrectContains(answer, song) ==
    \E i \in 1..Len(song.title) :
        Contains(RemoveSpaces(LowerStr(Strip(answer))),
                 NormalizeTitle(song.title[i]))

\* check_answer: answer_normalized = answer.strip().lower().replace(" ", "")
\* and is_correct
ApiIsCorrect(answer, song) ==
    IsCorrect(RemoveSpaces(LowerStr(Strip(answer))), song)

\* ChatVerdict without the check "username in current_winners"
ChatVerdictNoDuplicateCheck(username, answer) ==
    IF ~is_playing THEN "not_playing"
    ELSE IF showing_answer THEN "revealing"
    ELSE IF current_song_index >= Len(songs_data) THEN "no_song"
    ELSE IF Strip(answer) = <<>> THEN "empty"
    ELSE IF Len(current_winners) >= 3 THEN "full"
    ELSE IF ChatIsCorrect(answer, songs_data[current_song_index + 1]) THEN "ok"
    ELSE "wrong"

\* handle_game_answer down to is_correct: the reason the guess is dropped, or
\* "ok" when it is accepted
ChatVerdict(username, answer) ==
    IF ~is_playing THEN "not_playing"
    ELSE IF showing_answer THEN "revealing"
    ELSE IF current_song_index >= Len(songs_data) THEN "no_song"
    ELSE IF Strip(answer) = <<>> THEN "empty"
    ELSE IF Len(current_winners) >= 3 THEN "full"
    ELSE IF InList(username, current_winners) THEN "dup"
    ELSE IF ChatIsCorrect(answer, songs_data[current_song_index + 1]) THEN "ok"
    ELSE "wrong"

\* ApiVerdict without the check "len(current_winners) >= 3"
ApiVerdictNoSlotLimit(username, answer) ==
    IF current_song_index >= Len(songs_data) THEN "no_song"
    ELSE IF showing_answer THEN "revealing"
    ELSE IF InList(username, current_winners) THEN "dup"
    ELSE IF ApiIsCorrect(answer, songs_data[current_song_index + 1]) THEN "ok"
    ELSE "wrong"

\* check_answer down to is_correct: the reason the guess is rejected, or "ok"
ApiVerdict(username, answer) ==
    IF current_song_index >= Len(songs_data) THEN "no_song"
    ELSE IF showing_answer THEN "revealing"
    ELSE IF Len(current_winners) >= 3 THEN "full"
    ELSE IF InList(username, current_winners) THEN "dup"
    ELSE IF ApiIsCorrect(answer, songs_data[current_song_index + 1]) THEN "ok"
    ELSE "wrong"

\* the body of "if is_correct:" with current_winners.insert(0, username) in
\* place of the append
AwardAndRecordInFront(username) ==
    /\ TotalScore(players) + Points(Len(current_winners)) <= MaxPoints
    /\ players' = Award(players, username, Points(Len(current_winners)))
    /\ current_winners' = <<username>> \o current_winners

\* the body of "if is_correct:" in both handlers: the score update, then the
\* append to current_winners
AwardAndRecord(username) ==
    /\ TotalScore(players) + Points(Len(current_winners)) <= MaxPoints
    /\ players' = Award(players, username, Points(Len(current_winners)))
    /\ current_winners' = Append(current_winners, username)

\* what the history variable last keeps of a verdict: the rule of the session
\* that turned the guess away, if one did
Rejection(verdict) ==
    IF verdict \in {"revealing", "full", "dup"}
    THEN verdict
    ELSE "none"

-----------------------------------------------------------------------------
(* The handlers, each as one step *)

\* the module-level state of main.py after import: no catalog, GameState()
\* a slot of conn_tasks that holds no task
NoTask == [pc |-> "none", by |-> "none"]

InitialState ==
    /\ songs_data = <<>>
    /\ current_song_index = 0
    /\ players = <<>>
    /\ is_playing = FALSE
    /\ show_hint = FALSE
    /\ current_winners = <<>>
    /\ song_order = <<>>
    /\ played_count = 0
    /\ showing_answer = FALSE
    /\ last = "none"
    /\ visited = <<>>
    /\ task = [t \in 1..NumTasks |-> [pc |-> "idle"]]
    /\ running = 0
    /\ sio_connected = FALSE
    /\ current_access_token = "None"
    /\ current_session_key = "None"
    /\ lifespan_pc = "serving"
    /\ conn_tasks = [t \in 1..MaxConnTasks |-> NoTask]
    /\ lost_handlers = 0

Init ==
    /\ InitialState
    /\ arg = <<>>
    /\ out = <<>>

\* load_songs(rows): at startup (lifespan) and from load_csv_file when the
\* file exists
LoadSongs(rows) ==
    /\ running = 0
    /\ UNCHANGED <<loop, pure, socket>>
    /\ songs_data' = LoadSongsResult(rows)
    /\ last' = "none"
    /\ UNCHANGED <<game, visited>>

\* load_csv_file on a file that does not exist: 404
LoadCsvFileMissing ==
    /\ running = 0
    /\ UNCHANGED <<loop, pure, socket>>
    /\ last' = "none"
    /\ UNCHANGED <<songs_data, game, visited>>

\* get_current_song_answer without the assignment to showing_answer
GetCurrentSongAnswerReadOnly ==
    /\ running = 0
    /\ UNCHANGED <<loop, pure, socket>>
    /\ last' = "none"
    /\ UNCHANGED <<songs_data, game, visited>>

\* get_current_song_answer
GetCurrentSongAnswer ==
    /\ running = 0
    /\ UNCHANGED <<loop, pure, socket>>
    /\ IF current_song_index >= Len(songs_data)
       THEN /\ last' = "none"
            /\ UNCHANGED showing_answer
       ELSE /\ showing_answer' = TRUE
            /\ last' = "none"
    /\ UNCHANGED <<songs_data, current_song_index, players, is_playing,
                   show_hint, current_winners, song_order, played_count,
                   visited>>

\* start_game without the assignment showing_answer = False
StartGameKeepsReveal ==
    /\ running = 0
    /\ UNCHANGED <<loop, pure, socket>>
    /\ song_order' \in NewOrder(Len(songs_data))
    /\ played_count' = 0
    /\ current_song_index' = IF song_order' # <<>> THEN song_order'[1] ELSE 0
    /\ players' = <<>>
    /\ is_playing' = TRUE
    /\ show_hint' = FALSE
    /\ current_winners' = <<>>
    /\ visited' = IF song_order' # <<>> THEN <<current_song_index'>> ELSE <<>>
    /\ last' = "none"
    /\ UNCHANGED <<songs_data, showing_answer>>

\* start_game
StartGame ==
    /\ running = 0
    /\ UNCHANGED <<loop, pure, socket>>
    /\ song_order' \in NewOrder(Len(songs_data))
    /\ played_count' = 0
    /\ current_song_index' = IF song_order' # <<>> THEN song_order'[1] ELSE 0
    /\ players' = <<>>
    /\ is_playing' = TRUE
    /\ show_hint' = FALSE
    /\ current_winners' = <<>>
    /\ showing_answer' = FALSE
    /\ visited' = IF song_order' # <<>> THEN <<current_song_index'>> ELSE <<>>
    /\ last' = "none"
    /\ UNCHANGED songs_data

\* next_song that also empties the scoreboard
NextSongClearsPlayers ==
    /\ running = 0
    /\ UNCHANGED <<loop, pure, socket>>
    /\ played_count < MaxPlayed
    /\ played_count' = played_count + 1
    /\ show_hint' = FALSE
    /\ current_winners' = <<>>
    /\ showing_answer' = FALSE
    /\ players' = <<>>
    /\ IF played_count' >= Len(song_order)
       THEN /\ is_playing' = FALSE
            /\ last' = "none"
            /\ UNCHANGED <<current_song_index, visited>>
       ELSE /\ current_song_index' = song_order[played_count' + 1]
            /\ visited' = Append(visited, current_song_index')
            /\ last' = "none"
            /\ UNCHANGED is_playing
    /\ UNCHANGED <<songs_data, song_order>>

\* next_song without the assignment current_winners = []
NextSongKeepsWinners ==
    /\ running = 0
    /\ UNCHANGED <<loop, pure, socket>>
    /\ played_count < MaxPlayed
    /\ played_count' = played_count + 1
    /\ show_hint' = FALSE
    /\ showing_answer' = FALSE
    /\ IF played_count' >= Len(song_order)
       THEN /\ is_playing' = FALSE
            /\ last' = "none"
            /\ UNCHANGED <<current_song_index, visited>>
       ELSE /\ current_song_index' = song_order[played_count' + 1]
            /\ visited' = Append(visited, current_song_index')
            /\ last' = "none"
            /\ UNCHANGED is_playing
    /\ UNCHANGED <<songs_data, players, song_order, current_winners>>

\* next_song reading song_order[played_count - 1] for the next song
NextSongStaleIndex ==
    /\ running = 0
    /\ UNCHANGED <<loop, pure, socket>>
    /\ played_count < MaxPlayed
    /\ played_count' = played_count + 1
    /\ show_hint' = FALSE
    /\ current_winners' = <<>>
    /\ showing_answer' = FALSE
    /\ IF played_count' >= Len(song_order)
       THEN /\ is_playing' = FALSE
            /\ last' = "none"
            /\ UNCHANGED <<current_song_index, visited>>
       ELSE /\ current_song_index' = song_order[played_count']
            /\ visited' = Append(visited, current_song_index')
            /\ last' = "none"
            /\ UNCHANGED is_playing
    /\ UNCHANGED <<songs_data, players, song_order>>

\* next_song
NextSong ==
    /\ running = 0
    /\ UNCHANGED <<loop, pure, socket>>
    /\ played_count < MaxPlayed
    /\ played_count' = played_count + 1
    /\ show_hint' = FALSE
    /\ current_winners' = <<>>
    /\ showing_answer' = FALSE
    /\ IF played_count' >= Len(song_order)
       THEN /\ is_playing' = FALSE
            /\ last' = "none"
            /\ UNCHANGED <<current_song_index, visited>>
       ELSE /\ current_song_index' = song_order[played_count' + 1]
            /\ visited' = Append(visited, current_song_index')
            /\ last' = "none"
            /\ UNCHANGED is_playing
    /\ UNCHANGED <<songs_data, players, song_order>>

\* show_hint
ShowHint ==
    /\ running = 0
    /\ UNCHANGED <<loop, pure, socket>>
    /\ show_hint' = TRUE
    /\ last' = "none"
    /\ UNCHANGED <<songs_data, current_song_index, players, is_playing,
                   current_winners, song_order, played_count, showing_answer,
                   visited>>

\* handle_game_answer(username, answer)
HandleGameAnswer(username, answer) ==
    /\ running = 0
    /\ UNCHANGED <<show_hint, showing_answer, played_count, is_playing,
                   current_song_index>>
    /\ IF ChatVerdict(username, answer) = "ok"
       THEN AwardAndRecord(username)
       ELSE UNCHANGED <<players, current_winners>>
    /\ last' = Rejection(ChatVerdict(username, answer))
    /\ UNCHANGED <<song_order, visited, songs_data>>
    /\ UNCHANGED <<loop, pure, socket>>

\* on_chat: a CHAT event with its content and nickname
OnChat(nickname, content) ==
    IF content # <<>> /\ nickname # ""
    THEN HandleGameAnswer(nickname, content)
    ELSE /\ running = 0
         /\ last' = "none"
         /\ UNCHANGED <<songs_data, game, visited, loop, pure, socket>>

\* check_answer that registers a guesser who has no record yet with score 0
\* when the guess is not accepted
CheckAnswerRegistersGuesser(username, answer) ==
    /\ running = 0
    /\ UNCHANGED <<show_hint, showing_answer, played_count, is_playing,
                   current_song_index, song_order, visited, songs_data>>
    /\ UNCHANGED <<loop, pure, socket>>
    /\ IF ApiVerdict(username, answer) = "ok"
       THEN AwardAndRecord(username)
       ELSE /\ players' = Award(players, username, 0)
            /\ UNCHANGED current_winners
    /\ last' = Rejection(ApiVerdict(username, answer))

\* check_answer(username, answer)
CheckAnswer(username, answer) ==
    /\ running = 0
    /\ UNCHANGED <<show_hint, showing_answer, played_count, is_playing,
                   current_song_index>>
    /\ IF ApiVerdict(username, answer) = "ok"
       THEN AwardAndRecord(username)
       ELSE UNCHANGED <<players, current_winners>>
    /\ last' = Rejection(ApiVerdict(username, answer))
    /\ UNCHANGED <<song_order, visited, songs_data>>
    /\ UNCHANGED <<loop, pure, socket>>

\* reset_scores that clears the scoreboard only
ResetScoresKeepWinners ==
    /\ running = 0
    /\ UNCHANGED <<loop, pure, socket>>
    /\ players' = <<>>
    /\ last' = "reset"
    /\ UNCHANGED <<songs_data, current_song_index, is_playing, show_hint,
                   current_winners, song_order, played_count, showing_answer,
                   visited>>

\* reset_scores
ResetScores ==
    /\ running = 0
    /\ UNCHANGED <<loop, pure, socket>>
    /\ players' = <<>>
    /\ current_winners' = <<>>
    /\ last' = "reset"
    /\ UNCHANGED <<songs_data, current_song_index, is_playing, show_hint,
                   song_order, played_count, showing_answer, visited>>

\* get_current_song: the response in the current state, 404 or the song
GetCurrentSong ==
    IF current_song_index >= Len(songs_data)
    THEN [status |-> 404]
    ELSE [status |-> 200, id |-> current_song_index]

\* get_game_state: the two computed fields of the snapshot
GetGameState ==
    [total_songs |->
         IF song_order # <<>> THEN Len(song_order) ELSE Len(songs_data),
     current_progress |->
         IF is_playing THEN played_count + 1 ELSE played_count]

\* get_results with an ascending sort that is then reversed
GetResultsReversedSort == SortedThenReversed(players)

\* get_results: the list it returns in the current state
GetResults == SortedByScore(players)

Load == \E rows \in Files : LoadSongs(rows)

Chat == \E u \in Users, a \in Guesses : OnChat(u, a)

Api == \E u \in Users, a \in Guesses : CheckAnswer(u, a)

Next ==
    \/ Load
    \/ LoadCsvFileMissing
    \/ GetCurrentSongAnswer
    \/ StartGame
    \/ NextSong
    \/ ShowHint
    \/ Chat
    \/ Api
    \/ ResetScores

Spec == Init /\ [][Next]_vars

-----------------------------------------------------------------------------
(* Properties of the session, at handler granularity (Spec) *)

NoRepeats(xs) == \A i, j \in 1..Len(xs) : i # j => xs[i] # xs[j]

Elements(xs) == { xs[i] : i \in 1..Len(xs) }

\* xs holds every index of [0, n) exactly once and nothing else
IsPermutation(xs, n) ==
    /\ Len(xs) = n
    /\ Elements(xs) = 0..(n - 1)
    /\ NoRepeats(xs)

\* a step of either guess path, for some user and text
GuessBy(u, a) == OnChat(u, a) \/ CheckAnswer(u, a)

\* a step of either guess path
AnyGuess == \E u \in Users, a \in Guesses : GuessBy(u, a)

\* C1: current_winners never holds more than 3 usernames, and a guess that
\* arrives (by chat or by the API) when 3 winners are recorded, correct or
\* not, from a new user or not, changes neither current_winners nor players.
C1_AtMostThreeWinners ==
    /\ [](Len(current_winners) <= 3)
    /\ [][UNCHANGED <<players, current_winners>>
            \/ ~(Len(current_winners) >= 3 /\ AnyGuess)]_vars

\* C1 witness: three winners are recorded for the song being played and a
\* further guess has just been turned away because the slots are full.
C1_Witness ==
    /\ Len(current_winners) = 3
    /\ Cardinality(Elements(current_winners)) = 3
    /\ is_playing
    /\ last = "full"

\* C2: no username occurs twice in current_winners, and a guess of a user who
\* is already a winner of the current song, by either path, changes neither
\* current_winners nor players.
C2_WinnersDistinct ==
    /\ [](NoRepeats(current_winners))
    /\ [][UNCHANGED <<players, current_winners>>
            \/ ~(\E u \in Elements(current_winners), a \in Guesses :
                    GuessBy(u, a))]_vars

\* C2 witness: a winner of the current song guessed again and was turned away
\* as already recorded, while slots were still free.
C2_Witness ==
    /\ last = "dup"
    /\ Len(current_winners) \in 1..2
    /\ is_playing

\* C5: the answer query on a song being played sets showing_answer; while the
\* flag is set no guess, by either path, changes players or current_winners;
\* and only next_song and start_game clear the flag.
C5_RevealBlocksGuesses ==
    /\ [][is_playing /\ current_song_index < Len(songs_data)
            /\ GetCurrentSongAnswer => showing_answer']_vars
    /\ [][UNCHANGED <<players, current_winners>>
            \/ ~(showing_answer /\ AnyGuess)]_vars
    /\ [][showing_answer /\ ~showing_answer' => NextSong \/ StartGame]_vars

\* C5 witness: the answer of the song being played is revealed and a guess
\* has just been turned away for that reason.
C5_Witness ==
    /\ is_playing
    /\ current_song_index < Len(songs_data)
    /\ showing_answer
    /\ last = "revealing"

\* the session has run past the last song of a non-empty play order
Finished ==
    /\ ~is_playing
    /\ song_order # <<>>
    /\ played_count >= Len(song_order)

\* C6: next_song on the last song of the play order ends the session, and in
\* a finished session no guess (chat or API) and no show-hint request changes
\* the game state.
C6_FinishedIsInert ==
    /\ [][NextSong /\ song_order # <<>> /\ played_count' >= Len(song_order)
            => ~is_playing']_vars
    /\ [][UNCHANGED game \/ ~(Finished /\ (ShowHint \/ AnyGuess))]_vars

\* C7: in a session started over N >= 1 songs the songs made current so far
\* are the first played_count + 1 entries of the play order, all different;
\* the session is playing exactly while played_count < N, so after N - 1
\* next_song calls every song of [0, N) was current once and the session
\* still plays, and the N-th call ends it.  N is the size of the catalog
\* when the session started.
C7_EverySongOnce ==
    /\ [](song_order # <<>> =>
            /\ is_playing <=> played_count < Len(song_order)
            /\ NoRepeats(visited)
            /\ is_playing =>
                /\ Len(visited) = played_count + 1
                /\ current_song_index = visited[Len(visited)]
            /\ played_count >= Len(song_order) - 1 =>
                Elements(visited) = 0..(Len(song_order) - 1))
    /\ [][StartGame => /\ Len(song_order') = Len(songs_data)
                       /\ Len(visited') = IF songs_data = <<>> THEN 0 ELSE 1]_vars
    /\ [][played_count' = played_count + 1 => NextSong]_vars

\* C7 witness: a session over 2 songs after exactly 1 next_song call: both
\* songs were current and the session still plays.
C7_Witness ==
    /\ Len(song_order) = 2
    /\ played_count = 1
    /\ is_playing
    /\ Elements(visited) = {0, 1}

\* every list the shuffle of start_game can produce for a catalog of up to
\* MaxShuffle songs is a permutation of the catalog's indices
ShuffleGivesPermutations ==
    \A n \in 0..MaxShuffle : \A order \in NewOrder(n) : IsPermutation(order, n)

\* C8: start_game stores a permutation of [0, N), N the size of the catalog
\* at that moment, and no other handler changes song_order; the shuffle
\* yields permutations for every catalog size up to MaxShuffle.
C8_OrderIsPermutation ==
    /\ [](ShuffleGivesPermutations)
    /\ [][StartGame => IsPermutation(song_order', Len(songs_data))]_vars
    /\ [][song_order' # song_order => StartGame]_vars

\* C8 witness: a started session whose play order is not the catalog order.
C8_Witness ==
    /\ is_playing
    /\ song_order = <<1, 0>>
    /\ Len(songs_data) = 2

\* C9: while the session is playing, played_count is a valid index into
\* song_order.
C9_CursorValid ==
    is_playing => 0 <= played_count /\ played_count < Len(song_order)

\* C10: start_game over an empty catalog leaves the session not playing.
C10_EmptyCatalogFinished ==
    [][StartGame /\ songs_data = <<>> => ~is_playing']_vars

\* the usernames of the records of ps, in order
Usernames(ps) == [i \in 1..Len(ps) |-> ps[i].username]

\* the sum of the scores of all records of username in ps
RECURSIVE PointsHeld(_, _)
PointsHeld(ps, username) ==
    IF ps = <<>> THEN 0
    ELSE (IF Head(ps).username = username THEN Head(ps).score ELSE 0)
             + PointsHeld(Tail(ps), username)

\* C11: players never holds two records of one username, and every guess
\* that changes players (an accepted guess, by chat or by the API, whatever
\* its rank) adds the guesser to current_winners, raises the guesser's score
\* by exactly 1, creating the record with score 1 if there was none and
\* adding no record otherwise, and changes no other player's score.
C11_OnePointPerAcceptedGuess ==
    /\ [](NoRepeats(Usernames(players)))
    /\ [][UNCHANGED players \/ ~AnyGuess
            \/ \E u \in Users :
                   /\ current_winners' = Append(current_winners, u)
                   /\ PointsHeld(players', u) = PointsHeld(players, u) + 1
                   /\ \A v \in Users \ {u} :
                          PointsHeld(players', v) = PointsHeld(players, v)
                   /\ Len(players') =
                          Len(players) + (IF HasPlayer(players, u) THEN 0 ELSE 1)
                   /\ \A i \in 1..Len(players) :
                          players'[i].username = players[i].username]_vars

\* C11 witness: a player who won an earlier song has been accepted again, as
\* the second winner of the current song, and holds 2 points in one record.
C11_Witness ==
    /\ Len(current_winners) = 2
    /\ \E i \in 1..Len(players) :
           /\ players[i].username = current_winners[2]
           /\ players[i].score = 2
    /\ NoRepeats(Usernames(players))

\* C12: reset_scores leaves players and current_winners empty and changes
\* no other field of the session (is_playing, current_song_index,
\* song_order, played_count, show_hint, showing_answer) nor the catalog; the
\* results query right after it returns the empty list.
C12_ResetClearsScoresOnly ==
    [][ResetScores =>
          /\ players' = <<>>
          /\ current_winners' = <<>>
          /\ GetResults' = <<>>
          /\ UNCHANGED <<songs_data, current_song_index, is_playing, show_hint,
                         song_order, played_count, showing_answer>>]_vars

\* C12 witness: reset_scores has just run in a session that is playing its
\* second song with hint and answer shown; the rest of the session is as it
\* was.
C12_Witness ==
    /\ last = "reset"
    /\ players = <<>>
    /\ current_winners = <<>>
    /\ GetResults = <<>>
    /\ is_playing
    /\ played_count = 1
    /\ show_hint
    /\ showing_answer

\* the guess texts that are empty after trimming
BlankGuesses == { a \in Guesses : Strip(a) = <<>> }

\* the verdicts a handler reaches only by evaluating the guess against the
\* answers of the song
Evaluated == {"ok", "wrong"}

\* C14: a guess that is empty after trimming is turned away before the
\* answers are evaluated, on the chat path and on the API path: no handler
\* reaches a verdict of the evaluation for it, and no step that handles it
\* changes players or current_winners.
C14_EmptyGuessRejectedFirst ==
    /\ [](\A u \in Users, a \in BlankGuesses :
             /\ ChatVerdict(u, a) \notin Evaluated
             /\ ApiVerdict(u, a) \notin Evaluated)
    /\ [][UNCHANGED <<players, current_winners>>
            \/ ~(\E u \in Users, a \in BlankGuesses : GuessBy(u, a))]_vars

\* C16: the current-song query answers not-found whenever the session is
\* not playing (Idle or Finished) and whenever current_song_index is outside
\* the catalog; it returns a song only while the session is playing.
C16_NoSongUnlessPlaying ==
    /\ ~is_playing => GetCurrentSong.status = 404
    /\ current_song_index >= Len(songs_data) => GetCurrentSong.status = 404

\* no game was started: the session is as GameState() made it, whatever
\* hint requests and API guesses did to it since
Idle ==
    /\ ~is_playing
    /\ song_order = <<>>
    /\ played_count = 0

\* C17: next_song in an Idle session has no effect: played_count,
\* current_song_index, is_playing, show_hint, showing_answer,
\* current_winners and players are unchanged.
C17_NextSongIdleNoEffect ==
    [][Idle /\ NextSong =>
          UNCHANGED <<played_count, current_song_index, is_playing, show_hint,
                      showing_answer, current_winners, players>>]_vars

\* the catalog that the rows of a file make when every row is loaded
WholeCatalog(rows) == [i \in 1..Len(rows) |-> rows[i].song]

\* C18: the catalog is always the complete list of rows of some source or
\* empty, never a part of a source, and the count a load returns is the
\* length of the catalog it leaves.
C18_LoadAllOrNothing ==
    /\ [](\/ songs_data = <<>>
          \/ \E rows \in Files :
                 /\ \A i \in 1..Len(rows) : ~rows[i].raises
                 /\ songs_data = WholeCatalog(rows))
    /\ [][\A rows \in Files :
             LoadSongs(rows) => LoadSongsReturn(rows) = Len(songs_data')]_vars

\* C19: the results query returns the current players, each once, by score
\* descending, and players of equal score in the order of their records in
\* players, which is the order of creation.
C19_ResultsSortedStable ==
    /\ Len(GetResults) = Len(players)
    /\ \A i \in 1..Len(players) :
           Cardinality({ j \in 1..Len(GetResults) :
                           GetResults[j] = players[i] }) = 1
    /\ \A j, k \in 1..Len(GetResults) :
           j < k =>
               /\ GetResults[j].score >= GetResults[k].score
               /\ GetResults[j].score = GetResults[k].score =>
                      PlayerIndex(players, GetResults[j].username)
                          < PlayerIndex(players, GetResults[k].username)

\* C19 witness: three players, the second created holds the top score and
\* the first and third are tied, so the results differ from players and the
\* tie is listed in creation order.
C19_Witness ==
    /\ Len(players) = 3
    /\ players[1].score = 1
    /\ players[2].score = 2
    /\ players[3].score = 1
    /\ GetResults = <<players[2], players[1], players[3]>>

\* C20: the snapshot of the state query has current_progress <=
\* total_songs, and while the session is playing current_progress is the
\* 1-based position of the current song in the play order.
C20_ProgressWithinTotal ==
    /\ GetGameState.current_progress <= GetGameState.total_songs
    /\ is_playing =>
           /\ 1 <= GetGameState.current_progress
           /\ GetGameState.current_progress <= Len(song_order)
           /\ song_order[GetGameState.current_progress] = current_song_index

\* C21: once the session is finished it stays not playing, and its play
\* order, cursor (played_count) and phase (is_playing) change under no
\* operation but start_game.
C21_FinishedIsTerminal ==
    [][~Finished \/ StartGame
         \/ UNCHANGED <<song_order, played_count, is_playing>>]_vars

\* a step keeps every Player record in its place with a score that is not
\* smaller, and adds a record only at the end, for a user without a record
\* whose guess this step accepts
PlayersOnlyGrow ==
    /\ Len(players') >= Len(players)
    /\ \A i \in 1..Len(players) :
           /\ players'[i].username = players[i].username
           /\ players'[i].score >= players[i].score
    /\ Len(players') > Len(players) =>
           /\ Len(players') = Len(players) + 1
           /\ ~HasPlayer(players, players'[Len(players')].username)
           /\ current_winners' =
                  Append(current_winners, players'[Len(players')].username)
           /\ AnyGuess

\* C23 as stated: a Player record is created only by the user's first
\* accepted guess, and under every operation other than reset_scores it is
\* kept and its score does not decrease.
C23_PlayersKeptUntilReset ==
    [][ResetScores \/ PlayersOnlyGrow]_vars

\* C23, amended: a Player record is created only by the user's first
\* accepted guess, and under every operation other than reset_scores and
\* start_game (which empties the scoreboard for the new session) it is kept
\* and its score does not decrease.
C23_PlayersKeptUntilResetOrStart ==
    [][ResetScores \/ StartGame \/ PlayersOnlyGrow]_vars

\* C23 witness: the session has finished and the records of three players
\* created during it are still on the scoreboard.
C23_Witness ==
    /\ Finished
    /\ Len(players) = 3
    /\ played_count >= 1

\* C24: start_game, in whatever state it is called, leaves played_count = 0,
\* current_winners and players empty, show_hint and showing_answer false
\* and, when the catalog has songs, the session playing with the first entry
\* of the new play order as the current song; with showing_answer false no
\* guess is turned away because of a reveal, and in the session as
\* start_game leaves it some guess text is accepted from every user on both
\* paths.
C24_StartGivesFreshSession ==
    /\ [][StartGame =>
            /\ played_count' = 0
            /\ current_winners' = <<>>
            /\ players' = <<>>
            /\ ~show_hint'
            /\ ~showing_answer'
            /\ songs_data # <<>> =>
                   /\ is_playing'
                   /\ current_song_index' = song_order'[1]
                   /\ current_song_index' < Len(songs_data)]_vars
    /\ [](~showing_answer =>
             \A u \in Users, a \in Guesses :
                 /\ ChatVerdict(u, a) # "revealing"
                 /\ ApiVerdict(u, a) # "revealing")
    /\ [](/\ is_playing
          /\ played_count = 0
          /\ current_song_index < Len(songs_data)
          /\ current_winners = <<>>
          /\ ~showing_answer
          => \E a \in Guesses : \A u \in Users :
                 /\ ChatVerdict(u, a) = "ok"
                 /\ ApiVerdict(u, a) = "ok")

\* C24 witness: a fresh session over 2 songs whose play order starts with
\* song 1: song 1 is current, nothing is revealed and nobody has scored.
C24_Witness ==
    /\ is_playing
    /\ played_count = 0
    /\ song_order = <<1, 0>>
    /\ current_song_index = 1
    /\ visited = <<1>>
    /\ players = <<>>
    /\ current_winners = <<>>
    /\ ~show_hint
    /\ ~showing_answer

\* C25: next_song in a playing session raises played_count by exactly one,
\* empties current_winners, clears show_hint and showing_answer and leaves
\* players as they are; if played_count is then past the last index of
\* song_order the session is finished, otherwise it keeps playing with
\* song_order[played_count] as the current song; and with current_winners
\* empty and showing_answer false no guess is turned away by the reveal,
\* slot or duplicate rule.
C25_NextSongAdvances ==
    /\ [][~(is_playing /\ NextSong)
            \/ /\ played_count' = played_count + 1
               /\ current_winners' = <<>>
               /\ ~show_hint'
               /\ ~showing_answer'
               /\ players' = players
               /\ song_order' = song_order
               /\ IF played_count' > Len(song_order) - 1
                  THEN ~is_playing'
                  ELSE /\ is_playing'
                       /\ current_song_index' = song_order[played_count' + 1]]_vars
    /\ [](current_winners = <<>> /\ ~showing_answer =>
             \A u \in Users, a \in Guesses :
                 /\ ChatVerdict(u, a) \notin {"revealing", "full", "dup"}
                 /\ ApiVerdict(u, a) \notin {"revealing", "full", "dup"})

\* C25 witness: the second song of the play order is current after one
\* next_song call, the winners of the first song are cleared, their scores
\* are kept and nothing is revealed.
C25_Witness ==
    /\ is_playing
    /\ played_count = 1
    /\ Len(song_order) = 2
    /\ current_song_index = song_order[2]
    /\ current_winners = <<>>
    /\ Len(players) >= 2
    /\ ~show_hint
    /\ ~showing_answer

\* the text is none of the accepted answers of the current song
WrongAnswer(a) ==
    current_song_index < Len(songs_data) =>
        \A i \in 1..Len(songs_data[current_song_index + 1].title) :
            RemoveSpaces(LowerStr(Strip(a)))
                # NormalizeTitle(songs_data[current_song_index + 1].title[i])

\* a reason for which a guess of user u with text a is not accepted on
\* either path
Refused(u, a) ==
    \/ WrongAnswer(a)
    \/ Strip(a) = <<>>
    \/ Len(current_winners) >= 3
    \/ InList(u, current_winners)
    \/ showing_answer

\* C26: every step of a guess handler whose guess is refused (wrong answer,
\* empty text, slots full, user already a winner, reveal in progress, and on
\* the chat path game not playing) leaves the whole game state unchanged:
\* players with their scores, current_winners, is_playing, show_hint,
\* showing_answer, song_order, played_count and current_song_index.
C26_RefusedGuessChangesNothing ==
    [][UNCHANGED game
         \/ \A u \in Users, a \in Guesses :
                /\ ~OnChat(u, a) \/ ~(Refused(u, a) \/ ~is_playing)
                /\ ~CheckAnswer(u, a) \/ ~Refused(u, a)]_vars

\* C26 witness: a guess has just been turned away during a reveal, in a
\* session with the hint shown, a winner recorded and a player on the
\* scoreboard.
C26_Witness ==
    /\ last = "revealing"
    /\ show_hint
    /\ Len(current_winners) = 1
    /\ Len(players) = 2
    /\ played_count = 1

\* C27: current_winners changes only by one username appended at its end,
\* which leaves every recorded winner at the rank it has, or by being
\* emptied by next_song, reset_scores or start_game.
C27_WinnersInArrivalOrder ==
    [][\/ current_winners' = current_winners
       \/ /\ Len(current_winners') = Len(current_winners) + 1
          /\ \A i \in 1..Len(current_winners) :
                 current_winners'[i] = current_winners[i]
          /\ current_winners'[Len(current_winners')] \in Users
       \/ /\ current_winners' = <<>>
          /\ NextSong \/ ResetScores \/ StartGame]_vars

\* C27 witness: three users were accepted for the current song, u3 first,
\* then u1, then u2, and the list shows them in that order.
C27_Witness ==
    /\ is_playing
    /\ current_winners = <<"u3", "u1", "u2">>
    /\ Usernames(players) = <<"u3", "u1", "u2">>

\* C28: in every state and for every username and text, the chat path and
\* the API path accept the guess in the same cases, and so leave the same
\* game state (an accepted guess has the one effect of AwardAndRecord on
\* both, a guess that is not accepted has none).
C28_PathsAgree ==
    \A u \in Users, a \in Guesses :
        (a # <<>> /\ ChatVerdict(u, a) = "ok") <=> ApiVerdict(u, a) = "ok"

\* C29: a catalog reload while a session is playing ends the session
\* (is_playing becomes false), and a playing session never holds a play
\* order entry or a current song index outside the catalog.
C29_ReloadEndsSession ==
    /\ [][is_playing /\ Load => ~is_playing']_vars
    /\ [](is_playing /\ song_order # <<>> =>
             /\ current_song_index < Len(songs_data)
             /\ \A i \in 1..Len(song_order) : song_order[i] < Len(songs_data))

\* C31: within a session (from a start_game on) every player's score is at
\* most the number of songs that have been current so far in the session,
\* which is at most the length of the play order.
C31_OnePointPerSong ==
    is_playing \/ song_order # <<>> =>
        /\ Len(visited) <= Len(song_order)
        /\ \A u \in Users : ScoreOf(players, u) <= Len(visited)

-----------------------------------------------------------------------------
(* The guess handlers on the event loop (LoopSpec)                          *)
(*                                                                          *)
(* sio's CHAT callback and the FastAPI route run as tasks of one asyncio    *)
(* event loop.  A task that holds the loop keeps it until it awaits or      *)
(* returns; running is that task, 0 when the loop is free.  A handler is    *)
(* split here at the places where an await could stand: "checked" (after    *)
(* is_correct is computed) and "scored" (after the player update, before    *)
(* the append to current_winners).                                          *)

\* handle_game_answer with an await between its checks and its updates
ChatAwaitsAfterCheck == {"checked"}

\* the places of handle_game_answer (with on_chat) at which it awaits
ChatAwaits == {}

\* check_answer with an await after the score update
ApiAwaitsAfterScore == {"scored"}

\* the places of check_answer at which it awaits
ApiAwaits == {}

Awaits(path) == IF path = "chat" THEN ChatAwaits ELSE ApiAwaits

\* who holds the loop after task t reached place pc of its handler
Holder(t, path, pc) == IF pc \in Awaits(path) THEN 0 ELSE t

\* the verdict of a handler started now
Verdict(path, username, answer) ==
    IF path = "api" THEN ApiVerdict(username, answer)
    ELSE IF answer # <<>> /\ username # "" THEN ChatVerdict(username, answer)
    ELSE "no_content"

\* the free slot a new task takes
FreeSlot(t) ==
    /\ task[t].pc = "idle"
    /\ \A t2 \in 1..(t - 1) : task[t2].pc # "idle"

\* a guess handler starts and runs down to is_correct
LoopEnter(t, path, username, answer) ==
    /\ running = 0
    /\ FreeSlot(t)
    /\ IF Verdict(path, username, answer) = "ok"
       THEN /\ TotalScore(players) + Points(Len(current_winners)) <= MaxPoints
            /\ task' = [task EXCEPT ![t] =
                          [pc |-> "checked", path |-> path,
                           username |-> username,
                           snap |-> <<songs_data, game>>]]
            /\ running' = Holder(t, path, "checked")
            /\ last' = "none"
       ELSE /\ last' = Rejection(Verdict(path, username, answer))
            /\ UNCHANGED loop
    /\ UNCHANGED <<songs_data, game, visited, pure, socket>>

\* the handler computes the points and updates the player's score
LoopScore(t) ==
    /\ task[t].pc = "checked"
    /\ running = Holder(t, task[t].path, "checked")
    /\ players' = Award(players, task[t].username,
                        Points(Len(current_winners)))
    /\ task' = [task EXCEPT ![t].pc = "scored"]
    /\ running' = Holder(t, task[t].path, "scored")
    /\ UNCHANGED <<songs_data, current_song_index, is_playing, show_hint,
                   current_winners, song_order, played_count, showing_answer,
                   hist, pure, socket>>

\* the handler appends the username to current_winners and returns
LoopAppend(t) ==
    /\ task[t].pc = "scored"
    /\ running = Holder(t, task[t].path, "scored")
    /\ current_winners' = Append(current_winners, task[t].username)
    /\ task' = [task EXCEPT ![t] = [pc |-> "idle"]]
    /\ running' = 0
    /\ UNCHANGED <<songs_data, current_song_index, players, is_playing,
                   show_hint, song_order, played_count, showing_answer, hist,
                   pure, socket>>

LoopGuess ==
    \E t \in 1..NumTasks, path \in {"chat", "api"}, u \in Users, a \in Guesses :
        LoopEnter(t, path, u, a)

LoopStep == \E t \in 1..NumTasks : LoopScore(t) \/ LoopAppend(t)

LoopNext ==
    \/ Load
    \/ LoadCsvFileMissing
    \/ GetCurrentSongAnswer
    \/ StartGame
    \/ NextSong
    \/ ShowHint
    \/ ResetScores
    \/ LoopGuess
    \/ LoopStep

LoopSpec == Init /\ [][LoopNext]_vars

\* the game state that the one-step handler (AwardAndRecord) leaves when it
\* accepts username in the state snap = <<songs_data, game>>
Accepted(snap, username) ==
    <<snap[1],
      <<snap[2][1],
        Award(snap[2][2], username, Points(Len(snap[2][5]))),
        snap[2][3], snap[2][4],
        Append(snap[2][5], username),
        snap[2][6], snap[2][7], snap[2][8]>>>>

\* the same with the append still to come
Scored(snap, username) ==
    <<snap[1],
      <<snap[2][1],
        Award(snap[2][2], username, Points(Len(snap[2][5]))),
        snap[2][3], snap[2][4], snap[2][5],
        snap[2][6], snap[2][7], snap[2][8]>>>>

\* C3: a guess handler that has evaluated its checks still sees, until it
\* appends, the catalog and game state it checked against (changed only by
\* its own score update), and when it returns the state is the one the one-step handler produces from
\* the state it checked: the handlers take effect one at a time.
C3_GuessesSerialized ==
    /\ [](\A t \in 1..NumTasks :
            task[t].pc # "idle" =>
                /\ task[t].pc = "checked" =>
                       <<songs_data, game>> = task[t].snap
                /\ task[t].pc = "scored" =>
                       <<songs_data, game>> =
                           Scored(task[t].snap, task[t].username))
    /\ [][\A t \in 1..NumTasks :
            task[t].pc = "scored" /\ task'[t].pc = "idle" =>
                <<songs_data', game'>> =
                    Accepted(task[t].snap, task[t].username)]_vars

\* C3 witness: a handler is between its score update and its append, for a
\* song that already has a winner.
C3_Witness ==
    \E t \in 1..NumTasks :
        /\ task[t].pc = "scored"
        /\ running = t
        /\ current_winners # <<>>

\* C4: whenever the loop is free, so that a query or another handler can
\* run, no guess handler is between its score update and its append, and
\* every username in current_winners has a Player record with score >= 1.
C4_NoTornAward ==
    running = 0 =>
        /\ \A t \in 1..NumTasks : task[t].pc = "idle"
        /\ \A u \in Elements(current_winners) :
               HasPlayer(players, u) /\ ScoreOf(players, u) >= 1

\* C4 witness: the loop is free after two accepted guesses for one song.
C4_Witness ==
    /\ running = 0
    /\ Len(current_winners) = 2
    /\ Len(players) >= 2

-----------------------------------------------------------------------------
(* Functions of main.py checked on their own: a specification draws the     *)
(* input of the function into arg and one step applies the function and     *)
(* leaves the result in out; the session stays in its initial state.        *)

\* the longest guess text drawn
MaxGuessLen == 3

\* every str of at most n characters of chars
Strings(chars, n) == UNION { [1..k -> chars] : k \in 0..n }

\* the characters of guess texts: letters in both cases, space and tab
GuessChars == {"a", "A", "b", " ", "\t"}

\* accepted-answer lists of songs, as the loader leaves them: no entry is
\* blank
AnswerLists ==
    { <<>>,
      << <<"a", "b">> >>,
      << <<"b">>, <<"A", " ", "b">> >>,
      << <<"a", "\t", "b">> >>,
      << <<"a", "a", "b">>, <<"B", " ", "a">> >> }

JudgeInit ==
    /\ InitialState
    /\ arg \in { <<[answer |-> g, song |-> Song(t)]>> :
                    g \in Strings(GuessChars, MaxGuessLen), t \in AnswerLists }
    /\ out = <<>>

\* handle_game_answer judges the text against the song
JudgeChat ==
    /\ out = <<>>
    /\ out' = <<[path |-> "chat",
                 is_correct |-> ChatIsCorrect(arg[1].answer, arg[1].song)]>>
    /\ UNCHANGED <<songs_data, game, hist, loop, arg, socket>>

\* check_answer judges the text against the song
JudgeApi ==
    /\ out = <<>>
    /\ out' = <<[path |-> "api",
                 is_correct |-> ApiIsCorrect(arg[1].answer, arg[1].song)]>>
    /\ UNCHANGED <<songs_data, game, hist, loop, arg, socket>>

JudgeNext ==
    \/ JudgeChat
    \/ JudgeApi

JudgeSpec == JudgeInit /\ [][JudgeNext]_vars

\* the normalized form of a text: its spaces removed, then trimmed of the
\* white space left at its ends, then lower-cased
NormalForm(s) == LowerStr(Strip(RemoveSpaces(s)))

\* C13: on the chat path and on the API path alike, a guess is judged
\* correct exactly when its normalized form (trimmed, lower-cased, spaces
\* removed) is equal to the normalized form of one of the song's accepted
\* answers; a guess whose normalized form is only a part of an answer, or
\* has an answer as a part, is not correct.
C13_CorrectIffNormalizedEqual ==
    out # <<>> =>
        /\ out[1].is_correct <=>
               \E i \in 1..Len(arg[1].song.title) :
                   NormalForm(arg[1].answer) = NormalForm(arg[1].song.title[i])
        /\ out[1].is_correct =>
               \E i \in 1..Len(arg[1].song.title) :
                   Len(NormalForm(arg[1].answer))
                       = Len(NormalForm(arg[1].song.title[i]))

\* C13 witness: the API path has judged "a b", which is a part of the answer
\* "aab" and differs from "B a", as not correct.
C13_Witness ==
    /\ out # <<>>
    /\ out[1].path = "api"
    /\ arg[1].answer = <<"a", " ", "b">>
    /\ arg[1].song.title = << <<"a", "a", "b">>, <<"B", " ", "a">> >>
    /\ ~out[1].is_correct

-----------------------------------------------------------------------------
(* The title parser on its own *)

\* the longest title cell drawn
MaxTitleLen == 4

\* the characters of title cells: a letter, the comma, the backslash, the
\* space and the two brackets
TitleChars == {"a", ",", "\\", " ", "[", "]"}

\* the content of the bracketed list [a\, b, c]
ExampleContent == <<"a", "\\", ",", " ", "b", ",", " ", "c">>

TitleCells ==
    Strings(TitleChars, MaxTitleLen)
        \cup {ExampleContent, <<"[">> \o ExampleContent \o <<"]">>}

ParseInit ==
    /\ InitialState
    /\ arg \in { <<cell>> : cell \in TitleCells }
    /\ out = <<>>

\* parse_escaped_list is applied to the text as the content of a list
ParseContent ==
    /\ out = <<>>
    /\ out' = <<[fn |-> "parse_escaped_list",
                 value |-> ParseEscapedList(arg[1])]>>
    /\ UNCHANGED <<songs_data, game, hist, loop, arg, socket>>

\* load_songs parses the text as the title cell of a row
ParseTitleCell ==
    /\ out = <<>>
    /\ out' = <<[fn |-> "title_list", value |-> TitleList(arg[1])]>>
    /\ UNCHANGED <<songs_data, game, hist, loop, arg, socket>>

ParseNext ==
    \/ ParseContent
    \/ ParseTitleCell

ParseSpec == ParseInit /\ [][ParseNext]_vars

\* the number of backslashes that stand directly before position i of s
RECURSIVE RunBefore(_, _)
RunBefore(s, i) ==
    IF i > 1 /\ s[i - 1] = "\\" THEN 1 + RunBefore(s, i - 1) ELSE 0

\* position i of s is taken literally because an escaping backslash stands
\* before it
IsEscaped(s, i) == RunBefore(s, i) % 2 = 1

\* position i of s holds an escaping backslash: one that is not itself
\* escaped and has a character after it
IsEscape(s, i) == s[i] = "\\" /\ ~IsEscaped(s, i) /\ i < Len(s)

\* position i of s holds a comma that no escaping backslash precedes
IsSeparator(s, i) == s[i] = "," /\ ~IsEscaped(s, i)

\* the characters of s at the positions of idx, in order
Pick(s, idx) ==
    LET F[i \in 0..Len(s)] ==
            IF i = 0 THEN <<>>
            ELSE IF i \in idx THEN Append(F[i - 1], s[i]) ELSE F[i - 1]
    IN  F[Len(s)]

\* s with its escaping backslashes removed
Unescaped(s) == Pick(s, { i \in 1..Len(s) : ~IsEscape(s, i) })

Separators(s) == { i \in 1..Len(s) : IsSeparator(s, i) }

\* the k-th piece (k >= 0) of s cut at its separators, escapes removed
Piece(s, k) ==
    Pick(s, { i \in 1..Len(s) :
                /\ ~IsEscape(s, i)
                /\ ~IsSeparator(s, i)
                /\ Cardinality({ j \in Separators(s) : j < i }) = k })

\* the entries of the list with content s: its pieces, trimmed, the empty
\* ones dropped
Entries(s) ==
    SelectSeq([k \in 1..(Cardinality(Separators(s)) + 1) |->
                  Strip(Piece(s, k - 1))],
              LAMBDA e : e # <<>>)

\* the parser splits a list content at its unescaped commas only, removes
\* the escaping backslashes, trims the entries and drops the empty ones
ListParsedByGrammar ==
    out # <<>> /\ out[1].fn = "parse_escaped_list" =>
        out[1].value = Entries(arg[1])

\* C15 as stated: a list content is parsed by the grammar, and every bare
\* (unbracketed) title cell yields exactly one answer, the cell with its
\* escapes removed.
C15_BareTitleAlwaysOneAnswer ==
    /\ ListParsedByGrammar
    /\ out # <<>> /\ out[1].fn = "title_list" /\ ~IsBracketed(arg[1]) =>
           out[1].value = <<Unescaped(Strip(arg[1]))>>

\* C15, amended: a list content is split at every comma that no escaping
\* backslash precedes and nowhere else, a backslash followed by a character
\* yields that character, entries are trimmed and empty ones dropped (so
\* [a\, b, c] yields "a, b" and "c"); a bare title cell that is not blank
\* yields exactly one answer, the trimmed cell with its escapes removed, and
\* a blank cell yields no answer.
C15_TitleParsedByGrammar ==
    /\ ListParsedByGrammar
    /\ out # <<>> /\ out[1].fn = "title_list" =>
           /\ IsBracketed(arg[1]) =>
                  out[1].value = Entries(SubSeq(arg[1], 2, Len(arg[1]) - 1))
           /\ ~IsBracketed(arg[1]) /\ Strip(arg[1]) # <<>> =>
                  out[1].value = <<Unescaped(Strip(arg[1]))>>
           /\ Strip(arg[1]) = <<>> => out[1].value = <<>>

\* C15 witness: the content of [a\, b, c] has been parsed into "a, b" and
\* "c".
C15_Witness ==
    /\ out # <<>>
    /\ out[1].fn = "parse_escaped_list"
    /\ arg[1] = ExampleContent
    /\ out[1].value = << <<"a", ",", " ", "b">>, <<"c">> >>

\* the title cell opens with an escaped bracket, or closes with one
EscapedBracket(cell) ==
    \/ Len(cell) >= 2 /\ cell[1] = "\\" /\ cell[2] = "["
    \/ cell # <<>> /\ cell[Len(cell)] = "]" /\ IsEscaped(cell, Len(cell))

\* C30: a title cell whose first or last bracket is escaped is loaded as a
\* single bare answer, the trimmed cell with its escapes removed (so with the
\* literal bracket characters), and is never split as a bracketed list.
C30_EscapedBracketIsLiteral ==
    out # <<>> /\ out[1].fn = "title_list" /\ EscapedBracket(arg[1]) =>
        out[1].value = <<Unescaped(Strip(arg[1]))>>

-----------------------------------------------------------------------------
(* The start_time conversion of load_songs on its own *)

\* the longest start_time text drawn
MaxStartTimeLen == 3

\* the characters of start_time texts: signs, digits, a letter and the space
StartTimeChars == {"-", "+", "1", "7", "a", " "}

Digits == {"0", "1", "7"}

DigitValue(c) == IF c = "1" THEN 1 ELSE IF c = "7" THEN 7 ELSE 0

\* the number written by a str of digits
RECURSIVE Decimal(_)
Decimal(ds) ==
    IF ds = <<>> THEN 0
    ELSE 10 * Decimal(SubSeq(ds, 1, Len(ds) - 1)) + DigitValue(ds[Len(ds)])

\* int(text) for a str of the characters above: white space around the
\* literal is dropped, one sign may lead, at least one digit must follow and
\* nothing else; ok is FALSE where int raises ValueError
IntOf(text) ==
    LET t == Strip(text)
        signed == t # <<>> /\ Head(t) \in {"-", "+"}
        ds == IF signed THEN Tail(t) ELSE t
    IN  IF ds # <<>> /\ \A i \in 1..Len(ds) : ds[i] \in Digits
        THEN [ok |-> TRUE,
              value |-> IF signed /\ Head(t) = "-"
                        THEN 0 - Decimal(ds) ELSE Decimal(ds)]
        ELSE [ok |-> FALSE]

\* the start_time cell of a row: the file has no such column ("absent", so
\* row.get gives its default "0"), the row is too short to have it ("none",
\* the cell is None) or it holds a text
StartTimeCells ==
    { [kind |-> "absent"], [kind |-> "none"] }
        \cup { [kind |-> "text", text |-> s] :
                 s \in Strings(StartTimeChars, MaxStartTimeLen) }

\* try: start_time = int(row.get("start_time", "0"))
\* except (ValueError, TypeError): start_time = 0
StartTime(cell) ==
    IF cell.kind = "absent" THEN IntOf(<<"0">>).value
    ELSE IF cell.kind = "none" THEN 0
    ELSE IF IntOf(cell.text).ok THEN IntOf(cell.text).value
    ELSE 0

StartTimeInit ==
    /\ InitialState
    /\ arg \in { <<cell>> : cell \in StartTimeCells }
    /\ out = <<>>

\* load_songs converts the start_time cell of a row
ConvertStartTime ==
    /\ out = <<>>
    /\ out' = <<StartTime(arg[1])>>
    /\ UNCHANGED <<songs_data, game, hist, loop, arg, socket>>

StartTimeNext == ConvertStartTime

StartTimeSpec == StartTimeInit /\ [][StartTimeNext]_vars

\* the text is not the decimal literal of an integer
NotNumeric(text) ==
    \/ \A i \in 1..Len(text) : text[i] \notin Digits
    \/ \E i \in 1..Len(text) : text[i] = "a"

\* C22: the start_time of a loaded song is never below 0, and a missing or
\* non-numeric cell gives 0.
C22_StartTimeNonNegative ==
    out # <<>> =>
        /\ out[1] >= 0
        /\ arg[1].kind # "text" => out[1] = 0
        /\ arg[1].kind = "text" /\ NotNumeric(arg[1].text) => out[1] = 0

-----------------------------------------------------------------------------
(* The chat socket: connection, reconnection and shutdown (SocketSpec) *)

\* Socket.IO is the transport library.  Its contract as the program uses it:
\* sio.connected tells whether the connection is open; the disconnect event
\* handler is invoked for every disconnection, whether the connection was
\* lost or closed by sio.disconnect(), and a sio.disconnect() returns after
\* its handler has returned.  The handler and the tasks run on one event
\* loop and give way to each other at their awaits only.

\* main.is_shutting_down: set at module load and assigned nowhere else
is_shutting_down == FALSE

\* the access token of the streamer's account
Token == "token"

\* disconnect(): "if not is_shutting_down and current_access_token"
Reconnects == ~is_shutting_down /\ current_access_token # "None"

FreeSlots == { t \in 1..MaxConnTasks : conn_tasks[t] = NoTask }

\* asyncio.create_task(connect_to_chzzk_socket(...)) or
\* background_tasks.add_task(connect_to_chzzk_socket, ...): tasks with one
\* more task, created on behalf of by, in the first free slot
WithTask(tasks, by) ==
    LET t == CHOOSE s \in FreeSlots : \A u \in FreeSlots : s <= u
    IN  [tasks EXCEPT ![t] = [pc |-> "created", by |-> by]]

\* chzzk_callback with a token exchange that succeeds: the connection task
\* is handed to the background tasks of the response
Redirect ==
    /\ lifespan_pc = "serving"
    /\ FreeSlots # {}
    /\ conn_tasks' = WithTask(conn_tasks, "redirect")
    /\ UNCHANGED <<sio_connected, current_access_token, current_session_key,
                   lifespan_pc, lost_handlers>>
    /\ UNCHANGED <<songs_data, game, hist, loop, pure>>

\* connect_to_chzzk_socket from its start to the await of the session
\* request
ConnStart(t) ==
    /\ lifespan_pc # "stopped"
    /\ conn_tasks[t].pc = "created"
    /\ current_access_token' = Token
    /\ conn_tasks' = [conn_tasks EXCEPT ![t].pc = "fetching"]
    /\ UNCHANGED <<sio_connected, current_session_key, lifespan_pc,
                   lost_handlers>>
    /\ UNCHANGED <<songs_data, game, hist, loop, pure>>

\* connect_to_chzzk_socket from the session response to its next await: the
\* task ends without a socket URL; with one it closes an open connection
\* first, which runs the disconnect handler up to its sleep
ConnFetched(t) ==
    /\ lifespan_pc # "stopped"
    /\ conn_tasks[t].pc = "fetching"
    /\ \E socket_url \in BOOLEAN :
        IF ~socket_url
        THEN /\ conn_tasks' = [conn_tasks EXCEPT ![t] = NoTask]
             /\ UNCHANGED sio_connected
        ELSE IF sio_connected
        THEN /\ sio_connected' = FALSE
             /\ conn_tasks' = [conn_tasks EXCEPT ![t].pc =
                                  IF Reconnects THEN "in_handler"
                                                ELSE "connecting"]
        ELSE /\ conn_tasks' = [conn_tasks EXCEPT ![t].pc = "connecting"]
             /\ UNCHANGED sio_connected
    /\ UNCHANGED <<current_access_token, current_session_key, lifespan_pc,
                   lost_handlers>>
    /\ UNCHANGED <<songs_data, game, hist, loop, pure>>

\* the disconnect handler run by the task's sio.disconnect() wakes from its
\* sleep and creates the reconnection task; sio.disconnect() returns
ConnHandlerWake(t) ==
    /\ lifespan_pc # "stopped"
    /\ conn_tasks[t].pc = "in_handler"
    /\ FreeSlots # {}
    /\ conn_tasks' = [WithTask(conn_tasks, "replace") EXCEPT
                          ![t].pc = "connecting"]
    /\ UNCHANGED <<sio_connected, current_access_token, current_session_key,
                   lifespan_pc, lost_handlers>>
    /\ UNCHANGED <<songs_data, game, hist, loop, pure>>

\* connect_to_chzzk_socket: sio.connect succeeds or raises (the exception is
\* caught), and the task ends
ConnConnect(t) ==
    /\ lifespan_pc # "stopped"
    /\ conn_tasks[t].pc = "connecting"
    /\ \E connects \in BOOLEAN : sio_connected' = (sio_connected \/ connects)
    /\ conn_tasks' = [conn_tasks EXCEPT ![t] = NoTask]
    /\ UNCHANGED <<current_access_token, current_session_key, lifespan_pc,
                   lost_handlers>>
    /\ UNCHANGED <<songs_data, game, hist, loop, pure>>

\* on_system with a session key in the event
OnSystem ==
    /\ lifespan_pc # "stopped"
    /\ sio_connected
    /\ current_session_key' = "key"
    /\ UNCHANGED <<sio_connected, current_access_token, lifespan_pc,
                   conn_tasks, lost_handlers>>
    /\ UNCHANGED <<songs_data, game, hist, loop, pure>>

\* the connection is lost: the library runs the disconnect handler, which
\* goes to sleep when it is to reconnect
ConnectionLost ==
    /\ lifespan_pc # "stopped"
    /\ sio_connected
    /\ lost_handlers < MaxConnTasks
    /\ sio_connected' = FALSE
    /\ lost_handlers' = IF Reconnects THEN lost_handlers + 1
                                      ELSE lost_handlers
    /\ UNCHANGED <<current_access_token, current_session_key, lifespan_pc,
                   conn_tasks>>
    /\ UNCHANGED <<songs_data, game, hist, loop, pure>>

\* a disconnect handler of a lost connection wakes from its sleep and
\* creates the reconnection task
LostHandlerWake ==
    /\ lifespan_pc # "stopped"
    /\ lost_handlers > 0
    /\ FreeSlots # {}
    /\ lost_handlers' = lost_handlers - 1
    /\ conn_tasks' = WithTask(conn_tasks, "loss")
    /\ UNCHANGED <<sio_connected, current_access_token, current_session_key,
                   lifespan_pc>>
    /\ UNCHANGED <<songs_data, game, hist, loop, pure>>

\* lifespan from "if sio.connected" on: an open connection is closed, which
\* runs the disconnect handler up to its sleep
LifespanClose ==
    IF sio_connected
    THEN /\ sio_connected' = FALSE
         /\ lifespan_pc' = IF Reconnects THEN "in_handler" ELSE "stopped"
    ELSE /\ lifespan_pc' = "stopped"
         /\ UNCHANGED sio_connected

\* lifespan after its yield, the server stopping: up to the await of
\* unsubscribe_chat when there is a session to unsubscribe from, else on to
\* the socket
LifespanExit ==
    /\ lifespan_pc = "serving"
    /\ IF current_session_key # "None" /\ current_access_token # "None"
       THEN /\ lifespan_pc' = "unsubscribing"
            /\ UNCHANGED sio_connected
       ELSE LifespanClose
    /\ UNCHANGED <<current_access_token, current_session_key, conn_tasks,
                   lost_handlers>>
    /\ UNCHANGED <<songs_data, game, hist, loop, pure>>

\* lifespan after unsubscribe_chat has returned
LifespanUnsubscribed ==
    /\ lifespan_pc = "unsubscribing"
    /\ LifespanClose
    /\ UNCHANGED <<current_access_token, current_session_key, conn_tasks,
                   lost_handlers>>
    /\ UNCHANGED <<songs_data, game, hist, loop, pure>>

\* the disconnect handler run by the lifespan's sio.disconnect() wakes from
\* its sleep and creates the reconnection task; the lifespan ends
LifespanHandlerWake ==
    /\ lifespan_pc = "in_handler"
    /\ FreeSlots # {}
    /\ conn_tasks' = WithTask(conn_tasks, "shutdown")
    /\ lifespan_pc' = "stopped"
    /\ UNCHANGED <<sio_connected, current_access_token, current_session_key,
                   lost_handlers>>
    /\ UNCHANGED <<songs_data, game, hist, loop, pure>>

ConnStarts == \E t \in 1..MaxConnTasks : ConnStart(t)

ConnFetches == \E t \in 1..MaxConnTasks : ConnFetched(t)

ConnHandlerWakes == \E t \in 1..MaxConnTasks : ConnHandlerWake(t)

ConnConnects == \E t \in 1..MaxConnTasks : ConnConnect(t)

SocketNext ==
    \/ Redirect
    \/ ConnStarts
    \/ ConnFetches
    \/ ConnHandlerWakes
    \/ ConnConnects
    \/ OnSystem
    \/ ConnectionLost
    \/ LostHandlerWake
    \/ LifespanExit
    \/ LifespanUnsubscribed
    \/ LifespanHandlerWake

SocketSpec == Init /\ [][SocketNext]_vars

\* the reconnection tasks that exist on behalf of by
TasksBy(by) == { t \in 1..MaxConnTasks : conn_tasks[t].by = by }

\* C32: the disconnect handler that runs when the lifespan exit path closes
\* the chat socket schedules no connect_to_chzzk_socket task, even when an
\* access token is stored.
C32_NoReconnectOnShutdown == TasksBy("shutdown") = {}

\* C33: a lost connection makes at most one reconnection task (a task on
\* behalf of a loss appears only as one sleeping handler of a lost
\* connection ends), and the disconnect by which connect_to_chzzk_socket
\* replaces an open connection makes none.
C33_ReconnectSettles ==
    /\ [](TasksBy("replace") = {})
    /\ [][\/ TasksBy("loss")' \subseteq TasksBy("loss")
          \/ /\ Cardinality(TasksBy("loss")') = Cardinality(TasksBy("loss")) + 1
             /\ lost_handlers' = lost_handlers - 1]_vars

=============================================================================
